---- MODULE Spec2Model ----
(***************************************************************************)
(* stbb, the Simple Terminal Blackboard (src/main.rs).                     *)
(*                                                                         *)
(* The program owns a raw-mode terminal and a two-state Mode.  It clears   *)
(* the screen, draws a centred help text, then reads keys one at a time    *)
(* and turns each into escape codes written to the (buffered) terminal.    *)
(* The terminal device is modelled as far as the escape codes of main.rs   *)
(* use it: a W x H grid of cells, a 1-indexed cursor that relative and     *)
(* absolute moves clamp to the grid, autowrap with a pending-wrap flag,    *)
(* scrolling at the bottom row, and a cursor glyph.                        *)
(***************************************************************************)
EXTENDS Integers, Sequences, FiniteSets, TLC

\* Number of unconstrained keys the key stream delivers after its script.
MaxKeys == 3

U16(x) == x % 65536

Max(a, b) == IF a >= b THEN a ELSE b
Min(a, b) == IF a <= b THEN a ELSE b

(***************************************************************************)
(* Help texts.  A text is the sequence of its lines, a line is the         *)
(* sequence of its characters; only the length of a line and the identity  *)
(* (line, index) of each character matter to the program, so a text is     *)
(* given by the byte lengths of its lines.                                 *)
(***************************************************************************)
\* The help text of main.rs after indoc removed the common indentation.
MANUAL ==
  <<34, 38, 39, 39, 38, 0, 0, 48, 0, 49, 46, 49, 48, 30, 0, 49, 12, 0,
    49, 25, 49, 32, 26, 0, 49, 41, 29>>

\* A scaled-down help text (three lines, the last one empty).
SmallText == <<1, 2, 0>>

\* text.lines()
Lines(text) == text

\* (width, height) of a text: the longest line and the number of lines.
RECURSIVE Longest(_, _)
Longest(lines, longest) ==
  IF lines = <<>> THEN longest
  ELSE Longest(Tail(lines), Max(longest, Head(lines)))

get_text_shape(text) ==
  LET height == U16(Len(Lines(text)))
      width  == U16(Longest(Lines(text), 0))
  IN <<width, height>>

(***************************************************************************)
(* Cells and keys.                                                         *)
(***************************************************************************)
\* A character typed or drawn by a key.
Ch(c) == [line |-> -1, idx |-> 0, ch |-> c]
\* Character number j (from 1) of help line k (from 0).
ManualCh(k, j) == [line |-> k, idx |-> j, ch |-> "m"]
Space == Ch(" ")
\* What the shell left on the screen before the program started.
Stale == Ch("$")

Char(c) == [kind |-> "Char", c |-> c]
Ctrl(c) == [kind |-> "Ctrl", c |-> c]
Esc == [kind |-> "Esc", c |-> ""]
Backspace == [kind |-> "Backspace", c |-> ""]
Up == [kind |-> "Up", c |-> ""]
NoKey == [kind |-> "None", c |-> ""]

MovementKeys == {Char(c) : c \in {"h", "l", "k", "j", "H", "L", "K", "J"}}
DrawKeys == {Char(c) : c \in {"d", "f", "D", "F", " "}}
Keys ==
  MovementKeys \cup DrawKeys
    \cup {Char("c"), Char("q"), Char("i"), Char("\n"), Char("x"),
          Ctrl("["), Ctrl("a"), Esc, Backspace, Up}

(***************************************************************************)
(* Escape codes and text, as written to the terminal.                      *)
(***************************************************************************)
Op(name, a, b, s) == [op |-> name, a |-> a, b |-> b, s |-> s]
Left(n) == Op("Left", n, 0, <<>>)
Right(n) == Op("Right", n, 0, <<>>)
CUp(n) == Op("Up", n, 0, <<>>)
Down(n) == Op("Down", n, 0, <<>>)
Goto(c, r) == Op("Goto", c, r, <<>>)
ClearAll == Op("ClearAll", 0, 0, <<>>)
SteadyBar == Op("SteadyBar", 0, 0, <<>>)
SteadyBlock == Op("SteadyBlock", 0, 0, <<>>)
Text(s) == Op("Text", 0, 0, s)

(***************************************************************************)
(* The terminal device: t = [size, cursor, pend, glyph, screen].           *)
(***************************************************************************)
Cols(t) == t.size[1]
Rows(t) == t.size[2]
Cells(t) == (1..Cols(t)) \X (1..Rows(t))

ClampCol(t, c) == Max(1, Min(Cols(t), c))
ClampRow(t, r) == Max(1, Min(Rows(t), r))

\* CSI n D / C / A / B: relative moves stop at the edges.
MoveBy(t, dc, dr) ==
  [t EXCEPT !.cursor = <<ClampCol(t, t.cursor[1] + dc),
                         ClampRow(t, t.cursor[2] + dr)>>,
            !.pend = FALSE]

\* CSI r ; c H: a parameter 0 means 1, positions past the edge are clamped.
MoveTo(t, c, r) ==
  [t EXCEPT !.cursor = <<ClampCol(t, c), ClampRow(t, r)>>, !.pend = FALSE]

\* CSI 2 J: every cell is erased, the cursor stays.
EraseAll(t) == [t EXCEPT !.screen = [p \in Cells(t) |-> Space]]

\* The screen moved up by one row, a blank row at the bottom.
ScrollUp(t) ==
  [t EXCEPT !.screen =
     [p \in Cells(t) |->
        IF p[2] < Rows(t) THEN t.screen[<<p[1], p[2] + 1>>] ELSE Space]]

\* A pending wrap is carried out before the next character is written.
Wrapped(t) ==
  IF ~t.pend THEN t
  ELSE IF t.cursor[2] = Rows(t)
       THEN [ScrollUp(t) EXCEPT !.cursor = <<1, Rows(t)>>, !.pend = FALSE]
       ELSE [t EXCEPT !.cursor = <<1, t.cursor[2] + 1>>, !.pend = FALSE]

\* One character: written at the cursor, which advances; in the last
\* column the cursor stays and the wrap is pending.
PutChar(t, cell) ==
  LET w == Wrapped(t) IN
  IF w.cursor[1] = Cols(w)
  THEN [w EXCEPT !.screen[w.cursor] = cell, !.pend = TRUE]
  ELSE [w EXCEPT !.screen[w.cursor] = cell,
                 !.cursor = <<w.cursor[1] + 1, w.cursor[2]>>]

\* The characters of s one after the other.  (The first half of s, then
\* the second half: that keeps the recursion shallow, and the test on u
\* makes the evaluator compute u before it descends.)
RECURSIVE PutText(_, _)
PutText(t, s) ==
  IF s = <<>> THEN t
  ELSE IF Len(s) = 1 THEN PutChar(t, s[1])
  ELSE LET h == Len(s) \div 2
           u == PutText(t, SubSeq(s, 1, h))
       IN IF u.pend \in BOOLEAN THEN PutText(u, SubSeq(s, h + 1, Len(s)))
          ELSE u

Apply(t, o) ==
  CASE o.op = "Left" -> MoveBy(t, -o.a, 0)
    [] o.op = "Right" -> MoveBy(t, o.a, 0)
    [] o.op = "Up" -> MoveBy(t, 0, -o.a)
    [] o.op = "Down" -> MoveBy(t, 0, o.a)
    [] o.op = "Goto" -> MoveTo(t, o.a, o.b)
    [] o.op = "ClearAll" -> EraseAll(t)
    [] o.op = "SteadyBar" -> [t EXCEPT !.glyph = "bar"]
    [] o.op = "SteadyBlock" -> [t EXCEPT !.glyph = "block"]
    [] o.op = "Text" -> PutText(t, o.s)

\* The codes of ops one after the other.
RECURSIVE ApplyAll(_, _)
ApplyAll(t, ops) ==
  IF ops = <<>> THEN t
  ELSE IF Len(ops) = 1 THEN Apply(t, ops[1])
  ELSE LET h == Len(ops) \div 2
           u == ApplyAll(t, SubSeq(ops, 1, h))
       IN IF u.pend \in BOOLEAN
          THEN ApplyAll(u, SubSeq(ops, h + 1, Len(ops)))
          ELSE u

\* The reply to a cursor position report request.
CursorPos(t) == t.cursor

(***************************************************************************)
(* Buffered output.  A handler is a sequence of fallible operations on the *)
(* terminal handle: write!(..) appends escape codes and text to the        *)
(* buffer, flush() sends the buffer to the device, cursor_pos() flushes    *)
(* and reads the device's reply.  o = [term, buf, wrote, ok].              *)
(***************************************************************************)
Wr(ops) == [kind |-> "write", ops |-> ops]
Fl == [kind |-> "flush", ops |-> <<>>]
Qy == [kind |-> "query", ops |-> <<>>]

Flushed(t, b) == ApplyAll(t, b)

Step(o, ins) ==
  CASE ins.kind = "write" ->
         [o EXCEPT !.buf = o.buf \o ins.ops, !.wrote = o.wrote \o ins.ops]
    [] ins.kind = "flush" ->
         [o EXCEPT !.term = Flushed(o.term, o.buf), !.buf = <<>>]
    [] ins.kind = "query" ->
         [o EXCEPT !.term = Flushed(o.term, o.buf), !.buf = <<>>]

\* The operations of instrs one after the other, all succeeding.
RECURSIVE StepAll(_, _)
StepAll(o, instrs) ==
  IF instrs = <<>> THEN o
  ELSE IF Len(instrs) = 1 THEN Step(o, instrs[1])
  ELSE LET h == Len(instrs) \div 2
           u == StepAll(o, SubSeq(instrs, 1, h))
       IN IF u.ok THEN StepAll(u, SubSeq(instrs, h + 1, Len(instrs)))
          ELSE u

\* Runs the operations in order; operation number f (if any) fails and
\* the `?` at its call site returns, so nothing after it runs.
Exec(o, instrs, f) ==
  IF f = 0 THEN StepAll(o, instrs)
  ELSE [StepAll(o, SubSeq(instrs, 1, f - 1)) EXCEPT
          !.ok = FALSE, !.failed = instrs[f].kind]

Fresh(t, b) ==
  [term |-> t, buf |-> b, wrote |-> <<>>, ok |-> TRUE, failed |-> "none"]

(***************************************************************************)
(* Mode                                                                    *)
(***************************************************************************)
Normal == [tag |-> "Normal", entrance |-> <<0, 0>>]
Insert(entrance) == [tag |-> "Insert", entrance |-> entrance]

(***************************************************************************)
(* App::show_manual                                                        *)
(***************************************************************************)
manual_size(text) == get_text_shape(text)

\* A size check that forgot the columns.
TooSmall_HeightOnly(terminal_size, text) ==
  terminal_size[2] < manual_size(text)[2]

\* A size check that forgot the rows.
TooSmall_WidthOnly(terminal_size, text) ==
  terminal_size[1] < manual_size(text)[1]

TooSmall(terminal_size, text) ==
  \/ terminal_size[1] < manual_size(text)[1]
  \/ terminal_size[2] < manual_size(text)[2]

manual_origin(terminal_size, text) ==
  << U16(terminal_size[1] - manual_size(text)[1]) \div 2,
     U16(terminal_size[2] - manual_size(text)[2]) \div 2 >>

cursor_relative == <<5, 5>>

cursor_absolute(terminal_size, text) ==
  << U16(manual_origin(terminal_size, text)[1] + cursor_relative[1]),
     U16(manual_origin(terminal_size, text)[2] + cursor_relative[2]) >>

\* The characters of help line number index (from 0).
LineText(text, index) ==
  [j \in 1..Lines(text)[index + 1] |-> ManualCh(index, j)]

\* The row on which help line number index is drawn.
LineRow(terminal_size, text, index) ==
  U16(manual_origin(terminal_size, text)[2] + U16(index))

\* A help screen that is written and never flushed.
ShowManualInstrs_NoFlush(terminal_size, text) ==
  [index1 \in 1..Len(Lines(text)) |->
     Wr(<<Goto(manual_origin(terminal_size, text)[1],
               LineRow(terminal_size, text, index1 - 1)),
          Text(LineText(text, index1 - 1))>>)]
  \o << Wr(<<Goto(cursor_absolute(terminal_size, text)[1],
                  cursor_absolute(terminal_size, text)[2])>>) >>

\* One write! per line, the write! that parks the cursor, the flush.
ShowManualInstrs(terminal_size, text) ==
  [index1 \in 1..Len(Lines(text)) |->
     Wr(<<Goto(manual_origin(terminal_size, text)[1],
               LineRow(terminal_size, text, index1 - 1)),
          Text(LineText(text, index1 - 1))>>)]
  \o << Wr(<<Goto(cursor_absolute(terminal_size, text)[1],
                  cursor_absolute(terminal_size, text)[2])>>),
        Fl >>

\* Formatting Goto(0, 0) trips the library's debug assertion
\* ("Goto is one-based") in a build that has debug assertions on.
GotoAsserts(terminal_size, text) ==
  /\ Len(Lines(text)) > 0
  /\ manual_origin(terminal_size, text) = <<0, 0>>

(***************************************************************************)
(* App::handle_input                                                       *)
(***************************************************************************)
\* The string a Normal-mode drawing key writes.
Glyph(c) ==
  CASE c = "d" -> "U+2598"
    [] c = "f" -> "U+2596"
    [] c = "D" -> "U+2580"
    [] c = "F" -> "U+2584"
    [] c = " " -> " "

\* The fast horizontal keys jump 10 columns instead of 8.
NormalInstrs_Jump10(k) ==
  CASE k = Char("h") -> <<Wr(<<Left(1)>>), Fl>>
    [] k = Char("l") -> <<Wr(<<Right(1)>>), Fl>>
    [] k = Char("k") -> <<Wr(<<CUp(1)>>), Fl>>
    [] k = Char("j") -> <<Wr(<<Down(1)>>), Fl>>
    [] k = Char("H") -> <<Wr(<<Left(10)>>), Fl>>
    [] k = Char("L") -> <<Wr(<<Right(10)>>), Fl>>
    [] k = Char("K") -> <<Wr(<<CUp(6)>>), Fl>>
    [] k = Char("J") -> <<Wr(<<Down(6)>>), Fl>>
    [] k \in DrawKeys -> <<Wr(<<Text(<<Ch(Glyph(k.c))>>)>>), Fl>>
    [] k = Char("c") -> <<Wr(<<ClearAll>>), Fl>>
    [] k = Char("q") -> <<>>
    [] k = Char("i") -> <<Qy, Wr(<<SteadyBar>>), Fl>>
    [] OTHER -> <<Fl>>

\* The `i` arm forgot to write the bar glyph.
NormalInstrs_NoBar(k) ==
  CASE k = Char("h") -> <<Wr(<<Left(1)>>), Fl>>
    [] k = Char("l") -> <<Wr(<<Right(1)>>), Fl>>
    [] k = Char("k") -> <<Wr(<<CUp(1)>>), Fl>>
    [] k = Char("j") -> <<Wr(<<Down(1)>>), Fl>>
    [] k = Char("H") -> <<Wr(<<Left(8)>>), Fl>>
    [] k = Char("L") -> <<Wr(<<Right(8)>>), Fl>>
    [] k = Char("K") -> <<Wr(<<CUp(6)>>), Fl>>
    [] k = Char("J") -> <<Wr(<<Down(6)>>), Fl>>
    [] k \in DrawKeys -> <<Wr(<<Text(<<Ch(Glyph(k.c))>>)>>), Fl>>
    [] k = Char("c") -> <<Wr(<<ClearAll>>), Fl>>
    [] k = Char("q") -> <<>>
    [] k = Char("i") -> <<Qy, Fl>>
    [] OTHER -> <<Fl>>

\* The `c` arm clears the way clear_screen does, homing the cursor.
NormalInstrs_ClearHome(k) ==
  CASE k = Char("h") -> <<Wr(<<Left(1)>>), Fl>>
    [] k = Char("l") -> <<Wr(<<Right(1)>>), Fl>>
    [] k = Char("k") -> <<Wr(<<CUp(1)>>), Fl>>
    [] k = Char("j") -> <<Wr(<<Down(1)>>), Fl>>
    [] k = Char("H") -> <<Wr(<<Left(8)>>), Fl>>
    [] k = Char("L") -> <<Wr(<<Right(8)>>), Fl>>
    [] k = Char("K") -> <<Wr(<<CUp(6)>>), Fl>>
    [] k = Char("J") -> <<Wr(<<Down(6)>>), Fl>>
    [] k \in DrawKeys -> <<Wr(<<Text(<<Ch(Glyph(k.c))>>)>>), Fl>>
    [] k = Char("c") -> <<Wr(<<ClearAll, Goto(1, 1)>>), Fl>>
    [] k = Char("q") -> <<>>
    [] k = Char("i") -> <<Qy, Wr(<<SteadyBar>>), Fl>>
    [] OTHER -> <<Fl>>

NormalInstrs(k) ==
  CASE k = Char("h") -> <<Wr(<<Left(1)>>), Fl>>
    [] k = Char("l") -> <<Wr(<<Right(1)>>), Fl>>
    [] k = Char("k") -> <<Wr(<<CUp(1)>>), Fl>>
    [] k = Char("j") -> <<Wr(<<Down(1)>>), Fl>>
    [] k = Char("H") -> <<Wr(<<Left(8)>>), Fl>>
    [] k = Char("L") -> <<Wr(<<Right(8)>>), Fl>>
    [] k = Char("K") -> <<Wr(<<CUp(6)>>), Fl>>
    [] k = Char("J") -> <<Wr(<<Down(6)>>), Fl>>
    [] k \in DrawKeys -> <<Wr(<<Text(<<Ch(Glyph(k.c))>>)>>), Fl>>
    [] k = Char("c") -> <<Wr(<<ClearAll>>), Fl>>
    [] k = Char("q") -> <<>>
    [] k = Char("i") -> <<Qy, Wr(<<SteadyBar>>), Fl>>
    [] OTHER -> <<Fl>>

\* Enter goes to column 1 instead of the entrance column.
InsertInstrs_FirstColumn(entrance, k, cursor_pos) ==
  CASE k = Char("\n") ->
         <<Qy, Wr(<<Goto(1, U16(cursor_pos[2] + 1))>>), Fl>>
    [] k.kind = "Char" /\ k # Char("\n") -> <<Wr(<<Text(<<Ch(k.c)>>)>>), Fl>>
    [] k = Ctrl("[") \/ k = Esc -> <<Wr(<<SteadyBlock>>), Fl>>
    [] k = Backspace -> <<Wr(<<Left(1), Text(<<Space>>), Left(1)>>), Fl>>
    [] OTHER -> <<Fl>>

\* Backspace forgot the second move to the left.
InsertInstrs_OneLeft(entrance, k, cursor_pos) ==
  CASE k = Char("\n") ->
         <<Qy, Wr(<<Goto(entrance[1], U16(cursor_pos[2] + 1))>>), Fl>>
    [] k.kind = "Char" /\ k # Char("\n") -> <<Wr(<<Text(<<Ch(k.c)>>)>>), Fl>>
    [] k = Ctrl("[") \/ k = Esc -> <<Wr(<<SteadyBlock>>), Fl>>
    [] k = Backspace -> <<Wr(<<Left(1), Text(<<Space>>)>>), Fl>>
    [] OTHER -> <<Fl>>

\* The Escape arm forgot to write the block glyph.
InsertInstrs_NoBlock(entrance, k, cursor_pos) ==
  CASE k = Char("\n") ->
         <<Qy, Wr(<<Goto(entrance[1], U16(cursor_pos[2] + 1))>>), Fl>>
    [] k.kind = "Char" /\ k # Char("\n") -> <<Wr(<<Text(<<Ch(k.c)>>)>>), Fl>>
    [] k = Ctrl("[") \/ k = Esc -> <<Fl>>
    [] k = Backspace -> <<Wr(<<Left(1), Text(<<Space>>), Left(1)>>), Fl>>
    [] OTHER -> <<Fl>>

\* An Insert mode that moves the cursor on the Up arrow.
InsertInstrs_ArrowMoves(entrance, k, cursor_pos) ==
  CASE k = Char("\n") ->
         <<Qy, Wr(<<Goto(entrance[1], U16(cursor_pos[2] + 1))>>), Fl>>
    [] k.kind = "Char" /\ k # Char("\n") -> <<Wr(<<Text(<<Ch(k.c)>>)>>), Fl>>
    [] k = Ctrl("[") \/ k = Esc -> <<Wr(<<SteadyBlock>>), Fl>>
    [] k = Backspace -> <<Wr(<<Left(1), Text(<<Space>>), Left(1)>>), Fl>>
    [] k = Up -> <<Wr(<<CUp(1)>>), Fl>>
    [] OTHER -> <<Fl>>

\* cursor_pos is the reply to the position query of the Enter arm.
InsertInstrs(entrance, k, cursor_pos) ==
  CASE k = Char("\n") ->
         <<Qy, Wr(<<Goto(entrance[1], U16(cursor_pos[2] + 1))>>), Fl>>
    [] k.kind = "Char" /\ k # Char("\n") -> <<Wr(<<Text(<<Ch(k.c)>>)>>), Fl>>
    [] k = Ctrl("[") \/ k = Esc -> <<Wr(<<SteadyBlock>>), Fl>>
    [] k = Backspace -> <<Wr(<<Left(1), Text(<<Space>>), Left(1)>>), Fl>>
    [] OTHER -> <<Fl>>

HandleInstrs(m, k, cursor_pos) ==
  IF m.tag = "Normal" THEN NormalInstrs(k)
  ELSE InsertInstrs(m.entrance, k, cursor_pos)

\* A handler that forgot the Ctrl-[ alternative of the Escape arm.
HandleMode_EscOnly(m, k, cursor_pos, f) ==
  IF m.tag = "Normal"
  THEN IF k = Char("i") /\ f # 1 THEN Insert(cursor_pos) ELSE m
  ELSE IF k = Esc THEN Normal ELSE m

\* The Enter arm moves the entrance to where the cursor was.
HandleMode_EnterMovesEntrance(m, k, cursor_pos, f) ==
  IF m.tag = "Normal"
  THEN IF k = Char("i") /\ f # 1 THEN Insert(cursor_pos) ELSE m
  ELSE IF k = Ctrl("[") \/ k = Esc THEN Normal
       ELSE IF k = Char("\n") /\ f # 1 THEN Insert(cursor_pos) ELSE m

\* The `i` arm enters Insert mode before it asks for the cursor position.
HandleMode_InsertBeforeQuery(m, k, cursor_pos, f) ==
  IF m.tag = "Normal"
  THEN IF k = Char("i") THEN Insert(cursor_pos) ELSE m
  ELSE IF k = Ctrl("[") \/ k = Esc THEN Normal ELSE m

\* The mode after the handler ran with operation number f failing (f = 0:
\* none).  The entrance is assigned only once the query has succeeded; the
\* return to Normal is assigned before the glyph is written.
HandleMode(m, k, cursor_pos, f) ==
  IF m.tag = "Normal"
  THEN IF k = Char("i") /\ f # 1 THEN Insert(cursor_pos) ELSE m
  ELSE IF k = Ctrl("[") \/ k = Esc THEN Normal ELSE m

\* A handler whose `q` arm is not under the Normal-mode match.
Quits_AnyMode(m, k) == k = Char("q")

\* Escape in Normal mode leaves the loop as well.
Quits_EscapeToo(m, k) == m.tag = "Normal" /\ (k = Char("q") \/ k = Esc)

\* Ok(false): the key asks the loop to stop.
Quits(m, k) == m.tag = "Normal" /\ k = Char("q")

(***************************************************************************)
(* Key streams and runs.                                                   *)
(***************************************************************************)
E2E == <<Char("i"), Char("h"), Char("i"), Esc, Char("q")>>

\* To the left edge and the bottom row of an 80x27 terminal, then Insert
\* mode, Backspace and Enter there.
Edges ==
  <<Char("H"), Char("H"), Char("H"), Char("J"), Char("J"), Char("J"),
    Char("J"), Char("i"), Backspace, Char("\n")>>

\* Two Insert sessions: text and two Enters in the first, one Enter in the
\* second, which starts two rows below the first.
Reenter ==
  <<Char("i"), Char("x"), Char("\n"), Char("\n"), Esc, Char("i"), Char("\n")>>

Run(name, text, size, script, free) ==
  [name |-> name, text |-> text, size |-> size, script |-> script,
   free |-> free]

Runs ==
  {Run("e2e", MANUAL, sz, E2E, 0) : sz \in {<<80, 24>>, <<80, 27>>}}
  \cup {Run("edges", MANUAL, <<80, 27>>, Edges, 0)}
  \cup {Run("reenter", MANUAL, <<80, 27>>, Reenter, 0)}
  \cup {Run("layout", MANUAL, sz, <<>>, 0) :
          sz \in {<<49, 27>>, <<50, 28>>, <<51, 29>>, <<80, 28>>,
                  <<48, 27>>, <<49, 26>>}}
  \cup {Run("layout", SmallText, sz, <<>>, 0) :
          sz \in {<<4, 3>>, <<2, 5>>, <<4, 5>>, <<1, 3>>, <<2, 2>>}}
  \cup {Run("free", SmallText, <<2, 3>>, <<>>, MaxKeys),
         Run("free", SmallText, <<11, 9>>, <<Char("K"), Char("H")>>, MaxKeys)}

Glyphs == {"block", "bar"}

VARIABLES
  pc,        \* where the program is: start, clear, manual, waiting,
             \* finish, drop, exited
  result,    \* how main ends: none, ok, err, panic
  failed,    \* the operation whose error main returns: none, raw, size,
             \* write, flush, query, read
  mode,      \* App.mode
  buf,       \* output written but not flushed
  wrote,     \* what the current step wrote
  key,       \* the key read last
  prev,      \* the key read before it
  term,      \* the terminal device
  raw,       \* the terminal is in raw mode
  restores,  \* how often the cooked mode was restored
  stdin,     \* the keys still to come: a script, then free keys
  run        \* the run's name, help text and terminal size

vars ==
  <<pc, result, failed, mode, buf, wrote, key, prev, term, raw, restores,
    stdin, run>>

Init ==
  \E r \in Runs, g \in Glyphs :
    /\ run = [name |-> r.name, text |-> r.text]
    /\ stdin = [script |-> r.script, free |-> r.free]
    /\ term = [size |-> r.size, cursor |-> <<1, r.size[2]>>, pend |-> FALSE,
               glyph |-> g,
               screen |-> [p \in (1..r.size[1]) \X (1..r.size[2]) |-> Stale]]
    /\ pc = "start"
    /\ result = "none"
    /\ failed = "none"
    /\ mode = Normal
    /\ buf = <<>>
    /\ wrote = <<>>
    /\ key = NoKey
    /\ prev = NoKey
    /\ raw = FALSE
    /\ restores = 0

\* The outcome o of a fallible phase: on success the program goes on at
\* next, on failure main returns the error.
Outcome(o, next) ==
  /\ term' = o.term
  /\ buf' = o.buf
  /\ wrote' = o.wrote
  /\ pc' = IF o.ok THEN next ELSE "drop"
  /\ result' = IF o.ok THEN result ELSE "err"
  /\ failed' = o.failed

\* App::new: std::io::stdout().into_raw_mode()
New ==
  /\ pc = "start"
  /\ \/ /\ raw' = TRUE
        /\ pc' = "clear"
        /\ UNCHANGED <<result, failed>>
     \/ /\ pc' = "exited"
        /\ result' = "err"
        /\ failed' = "raw"
        /\ UNCHANGED raw
  /\ UNCHANGED <<mode, buf, wrote, key, prev, term, restores, stdin, run>>

\* A clear_screen that erases and leaves the cursor where it is.
ClearScreenInstrs_NoHome == <<Wr(<<ClearAll>>), Fl>>

ClearScreenInstrs == <<Wr(<<ClearAll, Goto(1, 1)>>), Fl>>

\* App::clear_screen
ClearScreen ==
  /\ pc = "clear"
  /\ \E f \in 0..Len(ClearScreenInstrs) :
       Outcome(Exec(Fresh(term, buf), ClearScreenInstrs, f), "manual")
  /\ UNCHANGED <<mode, key, prev, raw, restores, stdin, run>>

\* App::show_manual
ShowManual ==
  /\ pc = "manual"
  /\ \/ \* termion::terminal_size() fails
        /\ pc' = "drop"
        /\ result' = "err"
        /\ failed' = "size"
        /\ wrote' = <<>>
        /\ UNCHANGED <<term, buf>>
     \/ \* the terminal is too small, or the debug assertion fires
        /\ \/ TooSmall(term.size, run.text)
           \/ ~TooSmall(term.size, run.text) /\ GotoAsserts(term.size, run.text)
        /\ pc' = "drop"
        /\ result' = "panic"
        /\ wrote' = <<>>
        /\ UNCHANGED <<failed, term, buf>>
     \/ /\ ~TooSmall(term.size, run.text)
        /\ \E f \in 0..Len(ShowManualInstrs(term.size, run.text)) :
             Outcome(Exec(Fresh(term, buf),
                          ShowManualInstrs(term.size, run.text), f),
                     "waiting")
  /\ UNCHANGED <<mode, key, prev, raw, restores, stdin, run>>

\* The next key of the stream.
NextKey(k) ==
  IF stdin.script # <<>>
  THEN /\ k = Head(stdin.script)
       /\ stdin' = [stdin EXCEPT !.script = Tail(stdin.script)]
  ELSE /\ stdin.free > 0
       /\ stdin' = [stdin EXCEPT !.free = stdin.free - 1]

\* One iteration of the loop of App::run: a key is read and handled.
HandleInput(k) ==
  /\ pc = "waiting"
  /\ NextKey(k)
  /\ key' = k
  /\ prev' = key
  /\ LET pos == CursorPos(Flushed(term, buf))
         instrs == HandleInstrs(mode, k, pos)
     IN \E f \in 0..Len(instrs) :
          /\ mode' = HandleMode(mode, k, pos, f)
          /\ Outcome(Exec(Fresh(term, buf), instrs, f),
                     IF Quits(mode, k) THEN "finish" ELSE "waiting")
  /\ UNCHANGED <<raw, restores, run>>

\* Reading the key fails (`key?`).
ReadFail ==
  /\ pc = "waiting"
  /\ pc' = "drop"
  /\ result' = "err"
  /\ failed' = "read"
  /\ wrote' = <<>>
  /\ UNCHANGED <<mode, buf, key, prev, term, raw, restores, stdin, run>>

\* The key stream ends: the for loop is left.
StreamEnd ==
  /\ pc = "waiting"
  /\ stdin.script = <<>>
  /\ pc' = "finish"
  /\ wrote' = <<>>
  /\ UNCHANGED <<result, failed, mode, buf, key, prev, term, raw, restores,
                 stdin, run>>

\* An exit that clears the screen before it moves the cursor away.
FinishInstrs_ClearFirst == <<Wr(<<ClearAll, Goto(10000, 10000)>>), Fl>>

FinishInstrs == <<Wr(<<Goto(10000, 10000)>>), Fl>>

\* The end of App::run, after the loop.
Finish ==
  /\ pc = "finish"
  /\ \E f \in 0..Len(FinishInstrs) :
       LET o == Exec(Fresh(term, buf), FinishInstrs, f) IN
         /\ term' = o.term
         /\ buf' = o.buf
         /\ wrote' = o.wrote
         /\ pc' = "drop"
         /\ result' = IF o.ok THEN "ok" ELSE "err"
         /\ failed' = o.failed
  /\ UNCHANGED <<mode, key, prev, raw, restores, stdin, run>>

\* A drop that is skipped when main unwinds from a panic.
Drop_NotOnPanic ==
  /\ pc = "drop"
  /\ pc' = "exited"
  /\ raw' = (raw /\ result = "panic")
  /\ restores' = IF result = "panic" THEN restores ELSE restores + 1
  /\ wrote' = <<>>
  /\ UNCHANGED <<result, failed, mode, buf, key, prev, term, stdin, run>>

\* main returns or unwinds: the App temporary is dropped, and dropping the
\* raw terminal handle restores the terminal's previous mode.
Drop ==
  /\ pc = "drop"
  /\ pc' = "exited"
  /\ raw' = FALSE
  /\ restores' = restores + 1
  /\ wrote' = <<>>
  /\ UNCHANGED <<result, failed, mode, buf, key, prev, term, stdin, run>>

Next ==
  \/ New
  \/ ClearScreen
  \/ ShowManual
  \/ \E k \in Keys : HandleInput(k)
  \/ ReadFail
  \/ StreamEnd
  \/ Finish
  \/ Drop

Spec == Init /\ [][Next]_vars

\* The same program with a scheduler that lets it run.
FairSpec == Spec /\ WF_vars(New \/ ClearScreen \/ ShowManual \/ Finish \/ Drop)

(***************************************************************************)
(* The layout arithmetic of App::show_manual on its own, for terminal      *)
(* sizes up to the largest a u16 holds: the escape codes and texts it      *)
(* formats, without a device to receive them.                              *)
(***************************************************************************)
LayoutSizes ==
  {48, 49, 50, 51, 52, 58, 59, 80, 200, 32767, 65534, 65535}
    \X {24, 26, 27, 28, 29, 30, 36, 37, 50, 32767, 65534, 65535}

LayoutInit ==
  \E sz \in LayoutSizes :
    /\ run = [name |-> "arithmetic", text |-> MANUAL]
    /\ stdin = [script |-> <<>>, free |-> 0]
    /\ term = [size |-> sz, cursor |-> <<1, 1>>, pend |-> FALSE,
               glyph |-> "block", screen |-> <<>>]
    /\ pc = "manual"
    /\ result = "none"
    /\ failed = "none"
    /\ mode = Normal
    /\ buf = <<>>
    /\ wrote = <<>>
    /\ key = NoKey
    /\ prev = NoKey
    /\ raw = TRUE
    /\ restores = 0

\* The size check of show_manual panics.
LayoutPanic ==
  /\ pc = "manual"
  /\ \/ TooSmall(term.size, run.text)
     \/ ~TooSmall(term.size, run.text) /\ GotoAsserts(term.size, run.text)
  /\ pc' = "drop"
  /\ result' = "panic"
  /\ UNCHANGED <<failed, mode, buf, wrote, key, prev, term, raw, restores,
                 stdin, run>>

\* The writes of show_manual, up to its flush.
LayoutDraw ==
  /\ pc = "manual"
  /\ ~TooSmall(term.size, run.text)
  /\ LET instrs == ShowManualInstrs(term.size, run.text)
         o == StepAll(Fresh(term, buf), SubSeq(instrs, 1, Len(instrs) - 1))
     IN /\ wrote' = o.wrote
        /\ buf' = o.buf
  /\ pc' = "waiting"
  /\ UNCHANGED <<result, failed, mode, key, prev, term, raw, restores,
                 stdin, run>>

LayoutNext == LayoutPanic \/ LayoutDraw

LayoutSpec == LayoutInit /\ [][LayoutNext]_vars

TypeOK ==
  /\ pc \in {"start", "clear", "manual", "waiting", "finish", "drop", "exited"}
  /\ result \in {"none", "ok", "err", "panic"}
  /\ mode.tag \in {"Normal", "Insert"}
  /\ term.cursor \in Cells(term)
  /\ restores \in 0..1
  /\ failed \in {"none", "raw", "size", "write", "flush", "query", "read"}
  /\ (failed # "none") => result = "err"

(***************************************************************************)
(* Vocabulary of the properties.                                           *)
(***************************************************************************)
\* This step reads key k and runs the handler on it.
Handles(k) == pc = "waiting" /\ stdin' # stdin /\ key' = k
\* ... and no operation of the handler fails.
HandlesOk(k) == Handles(k) /\ pc' \in {"waiting", "finish"}
\* The help screen is drawn and no key has been read yet.
FirstWait == pc = "waiting" /\ key = NoKey
\* `q` was handled in Normal mode (a `q` typed in Insert mode leaves the
\* program waiting in Insert mode).
QuitByQ ==
  /\ pc \in {"finish", "drop", "exited"}
  /\ key = Char("q")
  /\ mode.tag = "Normal"

(***************************************************************************)
(* C1.  While the program (with the help text of main.rs) waits for a key, *)
(* the cursor glyph of the terminal matches the mode: Insert iff bar,      *)
(* Normal iff block, also right after the help screen was drawn.           *)
(* Violated: show_manual never writes a glyph, so the first wait shows     *)
(* whatever glyph the terminal had.                                        *)
(***************************************************************************)
C1_GlyphMatchesMode ==
  pc = "waiting" /\ run.text = MANUAL =>
    /\ (mode.tag = "Insert") <=> (term.glyph = "bar")
    /\ (mode.tag = "Normal") <=> (term.glyph = "block")

(***************************************************************************)
(* C2.  The mode starts as Normal.  It changes only from Normal to Insert  *)
(* in a step that handles `i` in Normal mode, and only from Insert to      *)
(* Normal in a step that handles Escape or Ctrl-[ in Insert mode; and      *)
(* every such step that completes does change it.                          *)
(***************************************************************************)
C2_Step ==
  /\ mode' # mode =>
       \/ /\ mode.tag = "Normal" /\ mode'.tag = "Insert"
          /\ Handles(Char("i"))
       \/ /\ mode.tag = "Insert" /\ mode' = Normal
          /\ Handles(Esc) \/ Handles(Ctrl("["))
  /\ mode.tag = "Normal" /\ HandlesOk(Char("i")) => mode'.tag = "Insert"
  /\ mode.tag = "Insert" /\ (HandlesOk(Esc) \/ HandlesOk(Ctrl("[")))
       => mode' = Normal

C2_ModeTransitions ==
  /\ mode = Normal
  /\ [][C2_Step]_vars

C2_Witness ==
  /\ pc = "waiting"
  /\ mode = Normal
  /\ key = Ctrl("[")
  /\ prev = Char("i")

(***************************************************************************)
(* C3.  `q` handled in Normal mode ends the loop: the program never waits  *)
(* for a key again and no key is read after it; the cooked mode is         *)
(* restored exactly once, after the loop.  `q` handled in Insert mode      *)
(* keeps the loop going and the mode as it is, and writes just the         *)
(* character q, which lands under the cursor.                              *)
(***************************************************************************)
C3_Step ==
  /\ mode.tag = "Normal" /\ HandlesOk(Char("q")) =>
       pc' = "finish" /\ mode' = mode /\ wrote' = <<>> /\ term' = term
  /\ pc \in {"finish", "drop", "exited"} =>
       /\ pc' \in {"finish", "drop", "exited"}
       /\ stdin' = stdin /\ key' = key
  /\ restores' # restores =>
       /\ pc = "drop" /\ pc' = "exited"
       /\ restores = 0 /\ restores' = 1
       /\ raw /\ ~raw'
  /\ QuitByQ /\ pc' = "exited" => restores' = 1
  /\ mode.tag = "Insert" /\ HandlesOk(Char("q")) =>
       /\ pc' = "waiting"
       /\ mode' = mode
       /\ wrote' = <<Text(<<Ch("q")>>)>>
       /\ term'.screen[Wrapped(term).cursor] = Ch("q")
       /\ term'.glyph = term.glyph

C3_QuitOnlyInNormal == [][C3_Step]_vars

C3_Witness ==
  /\ QuitByQ
  /\ pc = "exited"
  /\ restores = 1
  /\ result = "ok"
  /\ ~raw

(***************************************************************************)
(* C4 (as claimed).  Enter handled in Insert mode with entrance (ec, er)   *)
(* and cursor (c, r) leaves the cursor at (ec, r + 1), for every (c, r),   *)
(* and the mode with its entrance unchanged (stated of the runs with the   *)
(* help text of main.rs).                                                  *)
(* Violated on the bottom row: there is no row r + 1, the terminal clamps. *)
(***************************************************************************)
C4_EnterNextRow ==
  [][run.text = MANUAL /\ mode.tag = "Insert" /\ HandlesOk(Char("\n")) =>
       /\ term'.cursor = <<mode.entrance[1], term.cursor[2] + 1>>
       /\ mode' = mode]_vars

(***************************************************************************)
(* C4 (amended).  Enter handled in Insert mode with entrance (ec, er) and  *)
(* cursor (c, r) leaves the cursor at column ec, whatever c is, and at row *)
(* r + 1, or at row r when r is the bottom row of the terminal; the mode   *)
(* and the entrance are unchanged and no cell changes.                     *)
(***************************************************************************)
C4_EnterNextRowClamped ==
  [][mode.tag = "Insert" /\ HandlesOk(Char("\n")) =>
       /\ term'.cursor = <<mode.entrance[1],
                           Min(term.cursor[2] + 1, Rows(term))>>
       /\ mode' = mode
       /\ term'.screen = term.screen]_vars

\* Enter was handled after the cursor had drifted off the entrance column.
C4_Witness ==
  /\ pc = "waiting"
  /\ mode.tag = "Insert"
  /\ key = Char("\n")
  /\ prev = Char("x")
  /\ term.cursor = <<mode.entrance[1], mode.entrance[2] + 1>>

(***************************************************************************)
(* C5 (as claimed).  Backspace handled in Insert mode with the cursor at   *)
(* (col, row), col = 1 included, turns the cell (col-1, row) into a space, *)
(* changes no other cell and leaves the cursor at (col-1, row) (stated of  *)
(* the runs with the help text of main.rs).                                *)
(* Violated at col = 1: there is no column 0.                              *)
(***************************************************************************)
C5_BackspaceErasesLeft ==
  [][run.text = MANUAL /\ mode.tag = "Insert" /\ HandlesOk(Backspace) =>
       /\ term.cursor[1] - 1 >= 1
       /\ term'.cursor = <<term.cursor[1] - 1, term.cursor[2]>>
       /\ term'.screen =
            [term.screen EXCEPT ![<<term.cursor[1] - 1, term.cursor[2]>>] =
                                  Space]]_vars

(***************************************************************************)
(* C5 (amended).  Backspace handled in Insert mode with the cursor at      *)
(* (col, row) turns one cell into a space and changes no other: the cell   *)
(* (col-1, row) when col >= 2 (the rightmost column included), the cell    *)
(* (1, row) under the cursor when col = 1; the cursor ends on that cell.   *)
(***************************************************************************)
C5_Target == <<Max(term.cursor[1] - 1, 1), term.cursor[2]>>

C5_BackspaceErasesOneCell ==
  [][mode.tag = "Insert" /\ HandlesOk(Backspace) =>
       /\ term'.cursor = C5_Target
       /\ term'.screen = [term.screen EXCEPT ![C5_Target] = Space]
       /\ mode' = mode]_vars

\* Backspace was handled and erased a typed character.
C5_Witness ==
  /\ pc = "waiting"
  /\ mode.tag = "Insert"
  /\ key = Backspace
  /\ prev = Char("x")
  /\ term.cursor = mode.entrance
  /\ term.screen[term.cursor] = Space

(***************************************************************************)
(* C6.  `i` handled in Normal mode changes neither the cursor position nor *)
(* any cell and records the position; Escape or Ctrl-[ handled right after *)
(* it (the last step read `i` and wrote the bar glyph) returns to Normal   *)
(* mode with the block glyph, the cursor where it was before `i` and every *)
(* cell as it was.                                                         *)
(***************************************************************************)
C6_Step ==
  /\ mode.tag = "Normal" /\ HandlesOk(Char("i")) =>
       /\ term'.cursor = term.cursor
       /\ term'.screen = term.screen
       /\ mode'.entrance = term.cursor
  /\ /\ mode.tag = "Insert" /\ key = Char("i") /\ wrote = <<SteadyBar>>
     /\ HandlesOk(Esc) \/ HandlesOk(Ctrl("["))
     => /\ mode' = Normal
        /\ term'.glyph = "block"
        /\ term'.cursor = mode.entrance
        /\ term'.cursor = term.cursor
        /\ term'.screen = term.screen

C6_InsertEscapeRoundTrip == [][C6_Step]_vars

C6_Witness ==
  /\ pc = "waiting"
  /\ run.name = "free"
  /\ stdin.free = MaxKeys - 2
  /\ mode = Normal
  /\ key = Esc
  /\ prev = Char("i")
  /\ wrote = <<SteadyBlock>>
  /\ term.glyph = "block"

(***************************************************************************)
(* C7.  A movement key handled in Normal mode moves the cursor by its      *)
(* delta (h/l one column left/right, k/j one row up/down, H/L eight        *)
(* columns, K/J six rows), stopped only by the edges of the terminal; it   *)
(* writes nothing but that one relative move, and changes neither the mode *)
(* nor any cell.  Step by step this gives the position after any sequence  *)
(* of movement keys.                                                       *)
(***************************************************************************)
C7_Delta(k) ==
  CASE k = Char("h") -> <<-1, 0>>
    [] k = Char("l") -> <<1, 0>>
    [] k = Char("k") -> <<0, -1>>
    [] k = Char("j") -> <<0, 1>>
    [] k = Char("H") -> <<-8, 0>>
    [] k = Char("L") -> <<8, 0>>
    [] k = Char("K") -> <<0, -6>>
    [] k = Char("J") -> <<0, 6>>

C7_Step ==
  \A k \in MovementKeys :
    mode.tag = "Normal" /\ HandlesOk(k) =>
      /\ term'.cursor =
           << Max(1, Min(Cols(term), term.cursor[1] + C7_Delta(k)[1])),
              Max(1, Min(Rows(term), term.cursor[2] + C7_Delta(k)[2])) >>
      /\ Len(wrote') = 1
      /\ wrote'[1].op \in {"Left", "Right", "Up", "Down"}
      /\ mode' = mode
      /\ term'.screen = term.screen

C7_MovementDeltas == [][C7_Step]_vars

\* A sequence of movement keys, the last of which ran into an edge.
C7_Witness ==
  /\ pc = "waiting"
  /\ run.name = "free"
  /\ prev = Char("L")
  /\ key = Char("L")
  /\ term.cursor[1] = Cols(term)
  /\ term.cursor[2] = 3

(***************************************************************************)
(* C8.  When the help text of main.rs, of shape (w, h), fits the terminal   *)
(* (W, H), the origin is ((W-w)/2, (H-h)/2) and, once the help screen is   *)
(* drawn, line k of the text stands on row origin.row + k of the terminal  *)
(* (rows count from 1), from the origin column on (a column 0 is shown as  *)
(* column 1): the h lines are on h different consecutive rows and none is  *)
(* overwritten.                                                            *)
(* Violated when H - h < 2: the origin row is 0, Goto(_, 0) lands on row   *)
(* 1, and line 1 is drawn on the same row over line 0.                     *)
(***************************************************************************)
C8_Origin ==
  << (term.size[1] - get_text_shape(run.text)[1]) \div 2,
     (term.size[2] - get_text_shape(run.text)[2]) \div 2 >>

C8_HelpLayout ==
  FirstWait /\ run.text = MANUAL =>
    /\ manual_origin(term.size, run.text) = C8_Origin
    /\ \A k \in 0..(Len(run.text) - 1) :
         \A j \in 1..run.text[k + 1] :
           LET p == <<Max(C8_Origin[1], 1) + j - 1, C8_Origin[2] + k>>
           IN p \in Cells(term) /\ term.screen[p] = ManualCh(k, j)

(***************************************************************************)
(* C9.  When the terminal is smaller than the help text in either          *)
(* dimension, the program never gets to wait for a key and never reads     *)
(* one, no character of the help text is written (to the buffer or to the  *)
(* screen), and the run ends in the panic of the size check (or in the     *)
(* error of an operation that failed before the check), never in success.  *)
(***************************************************************************)
C9_Small ==
  \/ term.size[1] < get_text_shape(run.text)[1]
  \/ term.size[2] < get_text_shape(run.text)[2]

C9_TooSmallFailsBeforeDrawing ==
  C9_Small =>
    /\ pc \notin {"waiting", "finish"}
    /\ key = NoKey
    /\ result # "ok"
    /\ pc \in {"drop", "exited"} => result \in {"panic", "err"}
    /\ \A n \in 1..Len(buf) : buf[n].op # "Text"
    /\ \A n \in 1..Len(wrote) : wrote[n].op # "Text"
    /\ \A p \in Cells(term) : term.screen[p].line = -1

C9_Witness ==
  /\ C9_Small
  /\ term.size[1] >= get_text_shape(run.text)[1]
  /\ pc = "exited"
  /\ result = "panic"
  /\ \A p \in Cells(term) : term.screen[p] = Space

(***************************************************************************)
(* C10.  The run that feeds i, h, i, Escape, q to the program on a         *)
(* terminal of the given size: the help screen is drawn (no panic); the    *)
(* mode goes Normal, Insert, Normal; `i` writes the bar glyph, the keys h  *)
(* and i each write their character (next to each other, where the cursor  *)
(* was parked), Escape writes the block glyph; and unless an operation     *)
(* fails the program exits with success, the terminal restored once.       *)
(***************************************************************************)
C10_Expect(size) ==
  run.name = "e2e" /\ term.size = size =>
    /\ result # "panic"
    /\ pc = "waiting" =>
         CASE Len(stdin.script) = 5 -> mode = Normal /\ key = NoKey
           [] Len(stdin.script) = 4 ->
                /\ mode.tag = "Insert" /\ term.glyph = "bar"
                /\ wrote = <<SteadyBar>>
           [] Len(stdin.script) = 3 ->
                /\ mode.tag = "Insert" /\ term.glyph = "bar"
                /\ wrote = <<Text(<<Ch("h")>>)>>
           [] Len(stdin.script) = 2 ->
                /\ mode.tag = "Insert" /\ term.glyph = "bar"
                /\ wrote = <<Text(<<Ch("i")>>)>>
                /\ term.screen[mode.entrance] = Ch("h")
                /\ term.screen[<<mode.entrance[1] + 1, mode.entrance[2]>>]
                     = Ch("i")
           [] Len(stdin.script) = 1 ->
                /\ mode = Normal /\ term.glyph = "block"
                /\ wrote = <<SteadyBlock>>
           [] OTHER -> FALSE
    /\ stdin.script = <<>> =>
         /\ pc \in {"finish", "drop", "exited"}
         /\ mode = Normal
         /\ term.glyph = "block"
    /\ pc = "exited" /\ result # "err" =>
         /\ result = "ok"
         /\ stdin.script = <<>>
         /\ restores = 1
         /\ ~raw

C11_Step ==
  /\ raw' /\ ~raw => pc = "start" /\ restores = 0
  /\ restores' # restores =>
       /\ raw /\ ~raw'
       /\ restores = 0 /\ restores' = 1
       /\ pc' = "exited"
  /\ raw /\ ~raw' => restores' = restores + 1
  /\ pc # "exited" /\ pc' = "exited" =>
       IF raw THEN restores' = 1 /\ ~raw'
       ELSE pc = "start" /\ restores' = 0 /\ result' = "err"

C12_FlushedWhileWaiting == pc = "waiting" => buf = <<>>

\* Waiting again after a key whose handler wrote something.
C12_Witness ==
  /\ pc = "waiting"
  /\ key \in DrawKeys
  /\ wrote = <<Text(<<Ch(Glyph(key.c))>>)>>
  /\ buf = <<>>

(***************************************************************************)
(* C13.  The first failure of a terminal operation (entering raw mode, a   *)
(* write, a flush, a cursor position query, the terminal size query, a key *)
(* read) aborts the run.  In the failing step nothing reaches the          *)
(* terminal and the result becomes the error; from then on no key is read  *)
(* or handled, nothing is written or flushed (so the final cursor move of  *)
(* the quit path is not written either), no operation is tried again, and  *)
(* the program ends with the error.  When the position query of `i`        *)
(* fails, the mode is still Normal and the bar glyph is not written.       *)
(***************************************************************************)
C13_Step ==
  /\ failed = "none" /\ failed' # "none" =>
       /\ result' = "err"
       /\ pc' = IF failed' = "raw" THEN "exited" ELSE "drop"
       /\ failed' = "read" => stdin' = stdin /\ key' = key
  /\ failed # "none" =>
       /\ pc = "drop" /\ pc' = "exited"
       /\ result = "err" /\ result' = "err"
       /\ failed' = failed
       /\ stdin' = stdin /\ key' = key /\ mode' = mode
       /\ term' = term /\ buf' = buf /\ wrote' = <<>>
  /\ mode.tag = "Normal" /\ Handles(Char("i")) /\ failed' = "query" =>
       /\ mode' = Normal
       /\ wrote' = <<>>
       /\ buf' = <<>>
       /\ term'.glyph = term.glyph

C13_FirstFailureAborts == [][C13_Step]_vars

\* The position query of `i` failed in Normal mode and the program ended.
C13_Witness ==
  /\ pc = "exited"
  /\ result = "err"
  /\ failed = "query"
  /\ key = Char("i")
  /\ prev # Char("i")
  /\ mode = Normal
  /\ term.glyph = "block"
  /\ restores = 1

(***************************************************************************)
(* C14.  As claimed: the read loop is left in an orderly way only in a     *)
(* step that handles `q` in Normal mode.  Violated: when the key stream    *)
(* ends, the loop is left without any key, and the program goes on to exit *)
(* successfully.                                                           *)
(***************************************************************************)
C14_OnlyQEndsLoop ==
  [][pc = "waiting" /\ pc' = "finish" =>
       mode.tag = "Normal" /\ Handles(Char("q"))]_vars

\* C14 amended: the read loop is left in an orderly way only in a step that
\* handles `q` in Normal mode or in a step that reads no key because the key
\* stream has ended; every other key, in either mode, keeps the program in
\* the loop unless its handler fails, and only a program that left the loop
\* in one of these two ways exits successfully.
C14_Step ==
  /\ pc = "waiting" /\ pc' = "finish" =>
       \/ mode.tag = "Normal" /\ Handles(Char("q"))
       \/ /\ stdin' = stdin /\ key' = key
          /\ mode' = mode /\ term' = term /\ wrote' = <<>>
  /\ pc = "waiting" /\ stdin' # stdin
       /\ ~(mode.tag = "Normal" /\ key' = Char("q")) =>
         /\ pc' \in {"waiting", "drop"}
         /\ pc' = "drop" => result' = "err"
  /\ pc' = "finish" => pc \in {"waiting", "finish"}
  /\ result' = "ok" /\ result # "ok" => pc = "finish"

C14_OnlyQOrStreamEndEndsLoop == [][C14_Step]_vars

\* The key stream ended in Insert mode and the program exited successfully.
C14_Witness ==
  /\ pc = "exited"
  /\ result = "ok"
  /\ mode.tag = "Insert"
  /\ key = Char("q")
  /\ prev = Char("i")

(***************************************************************************)
(* C15.  A `c` handled in Normal mode writes the erase-all sequence and    *)
(* nothing else: afterwards every cell of the terminal is blank, and the   *)
(* cursor position, the cursor glyph and the mode are what they were; the  *)
(* program waits for the next key.                                         *)
(***************************************************************************)
C15_Step ==
  mode.tag = "Normal" /\ HandlesOk(Char("c")) =>
    /\ wrote' = <<ClearAll>>
    /\ \A p \in Cells(term) : term'.screen[p] = Space
    /\ term'.cursor = term.cursor
    /\ term'.glyph = term.glyph
    /\ term'.size = term.size
    /\ mode' = Normal
    /\ pc' = "waiting"

C15_ClearKeepsCursorAndMode == [][C15_Step]_vars

\* A screen erased by `c` with the cursor away from the home position,
\* right after a glyph had been drawn.
C15_Witness ==
  /\ pc = "waiting"
  /\ mode = Normal
  /\ key = Char("c")
  /\ prev \in DrawKeys
  /\ wrote = <<ClearAll>>
  /\ term.cursor # <<1, 1>>
  /\ \A p \in Cells(term) : term.screen[p] = Space

(***************************************************************************)
(* C16.  A key that is not in the table of the current mode has no effect: *)
(* in Normal mode any key other than h l k j H L K J d f D F space c q i,  *)
(* in Insert mode any key other than Enter, a character key, Escape,       *)
(* Ctrl-[ and Backspace.  Handling it writes nothing and leaves the mode,  *)
(* the entrance, the cursor glyph, the cursor position and every cell as   *)
(* they were, and the program waits for the next key.                      *)
(***************************************************************************)
C16_InTable(m, k) ==
  IF m.tag = "Normal"
  THEN /\ k.kind = "Char"
       /\ k.c \in {"h", "l", "k", "j", "H", "L", "K", "J",
                   "d", "f", "D", "F", " ", "c", "q", "i"}
  ELSE \/ k.kind = "Char"
       \/ k.kind \in {"Esc", "Backspace"}
       \/ k.kind = "Ctrl" /\ k.c = "["

C16_Step ==
  pc = "waiting" /\ stdin' # stdin /\ ~C16_InTable(mode, key') =>
    /\ wrote' = <<>>
    /\ mode' = mode
    /\ term' = term
    /\ buf' = buf
    /\ pc' = "waiting" \/ (pc' = "drop" /\ failed' = "flush")

C16_UnhandledKeysDoNothing == [][C16_Step]_vars

\* An arrow key was handled in Insert mode, away from the top row.
C16_Witness ==
  /\ pc = "waiting"
  /\ mode.tag = "Insert"
  /\ key = Up
  /\ wrote = <<>>
  /\ term.cursor[2] > 1

(***************************************************************************)
(* C17.  The phases of a run come in a fixed order.  Nothing is written    *)
(* before raw mode is entered.  Then the screen is cleared and the cursor  *)
(* sent to (1,1).  Then the help screen is drawn and flushed, the cursor   *)
(* parked; no key is read before that.  Then keys are read one at a time,  *)
(* each read only when the handling of the one before is complete and      *)
(* flushed.  Once the cooked mode is restored nothing is written or        *)
(* flushed, and a run that ends in success leaves nothing unflushed.       *)
(***************************************************************************)
C17_Order ==
  { <<"start", "clear">>, <<"start", "exited">>,
    <<"clear", "manual">>, <<"clear", "drop">>,
    <<"manual", "waiting">>, <<"manual", "drop">>,
    <<"waiting", "waiting">>, <<"waiting", "finish">>, <<"waiting", "drop">>,
    <<"finish", "drop">>, <<"drop", "exited">> }

C17_Parked ==
  << Min(Max(cursor_absolute(term.size, run.text)[1], 1), term.size[1]),
     Min(Max(cursor_absolute(term.size, run.text)[2], 1), term.size[2]) >>

C17_State ==
  /\ pc = "start" => ~raw /\ restores = 0
  /\ pc \in {"start", "clear"} =>
       /\ buf = <<>> /\ wrote = <<>>
       /\ \A p \in Cells(term) : term.screen[p] = Stale
  /\ pc \in {"clear", "manual", "waiting", "finish"} => raw
  /\ pc = "manual" =>
       /\ \A p \in Cells(term) : term.screen[p] = Space
       /\ term.cursor = <<1, 1>>
       /\ buf = <<>>
  /\ key # NoKey => pc \in {"waiting", "finish", "drop", "exited"}
  /\ FirstWait =>
       /\ buf = <<>>
       /\ term.cursor = C17_Parked
       /\ \E p \in Cells(term) : term.screen[p].line >= 0
  /\ pc = "exited" /\ result = "ok" => buf = <<>> /\ ~raw

C17_Step ==
  /\ <<pc, pc'>> \in C17_Order
  /\ wrote' # <<>> \/ term' # term \/ buf' # buf =>
       raw /\ raw' /\ restores = 0 /\ restores' = 0
  /\ stdin' # stdin =>
       /\ pc = "waiting"
       /\ buf = <<>>
       /\ Len(stdin'.script) + stdin'.free
            = Len(stdin.script) + stdin.free - 1
       /\ prev' = key
       /\ pc' = "waiting" => buf' = <<>>
  /\ restores' = 1 => term' = term /\ buf' = buf /\ wrote' = <<>>

C17_PhasesInOrder == []C17_State /\ [][C17_Step]_vars

\* A run through all phases: two keys handled, the loop left, the cooked
\* mode restored.
C17_Witness ==
  /\ pc = "exited"
  /\ result = "ok"
  /\ prev # NoKey
  /\ key = Char("q")
  /\ mode = Normal
  /\ restores = 1
  /\ \E p \in Cells(term) : term.screen[p].line >= 0

(***************************************************************************)
(* C18.  On the way out after the loop, while the terminal is still in raw *)
(* mode, the program writes exactly one absolute move to (10000, 10000)    *)
(* and flushes it: the cursor ends in the bottom-right cell.  Nothing      *)
(* is erased: from the end of the loop to the end of the program every     *)
(* cell stays as it was.                                                   *)
(***************************************************************************)
C18_Step ==
  /\ pc = "finish" /\ result' = "ok" =>
       /\ wrote' = <<Goto(10000, 10000)>>
       /\ buf' = <<>>
       /\ term'.cursor = term.size
       /\ term'.glyph = term.glyph
       /\ raw /\ raw' /\ restores' = 0
       /\ pc' = "drop"
  /\ pc \in {"finish", "drop"} => term'.screen = term.screen
  /\ pc = "drop" => wrote' = <<>> /\ term' = term

C18_FinalMoveNoClear == [][C18_Step]_vars

\* The user drew a glyph and quit: the glyph is still there at the exit and
\* the cursor is in the bottom-right cell, away from where the glyph is.
C18_Witness ==
  /\ pc = "exited"
  /\ result = "ok"
  /\ key = Char("q")
  /\ prev = Char("d")
  /\ term.cursor = term.size
  /\ \E p \in Cells(term) :
       p # term.size /\ term.screen[p] = Ch(Glyph("d"))

(***************************************************************************)
(* C19.  The entrance that `i` records is the cursor position at the       *)
(* moment `i` is handled, whatever entrance an earlier Insert session had. *)
(* No step that stays in Insert mode changes it, so every Enter of the     *)
(* session brings the cursor back to the same column.                      *)
(***************************************************************************)
C19_Step ==
  /\ mode.tag = "Normal" /\ HandlesOk(Char("i")) =>
       /\ mode' = Insert(term.cursor)
       /\ term'.cursor = term.cursor
  /\ mode.tag = "Insert" /\ mode'.tag = "Insert" =>
       mode'.entrance = mode.entrance
  /\ mode.tag = "Insert" /\ HandlesOk(Char("\n")) =>
       term'.cursor[1] = mode.entrance[1]

C19_EntranceFixedPerSession == [][C19_Step]_vars

\* The second Insert session of the scripted run: it started at (20, 7),
\* two rows below the first one's entrance (20, 5), and its Enter went to
\* column 20 of row 8.
C19_Witness ==
  /\ run.name = "reenter"
  /\ stdin.script = <<>>
  /\ pc = "waiting"
  /\ key = Char("\n")
  /\ prev = Char("i")
  /\ mode = Insert(<<20, 7>>)
  /\ term.cursor = <<20, 8>>

(***************************************************************************)
(* C20.  For every terminal size that passes the size check, the u16      *)
(* layout arithmetic gives what the same arithmetic gives on unbounded     *)
(* integers (nothing underflows or overflows); every help line is written  *)
(* on a row of the terminal and ends at a column of the terminal, so       *)
(* drawing never wraps or scrolls; and the cursor is parked at             *)
(* (origin.column + 5, origin.row + 5), a cell of the terminal that lies   *)
(* inside the block of the help text.                                      *)
(***************************************************************************)
C20_W == term.size[1]
C20_H == term.size[2]
\* The help text of the program has 27 lines, the longest of 49 characters.
C20_w == get_text_shape(MANUAL)[1]
C20_h == get_text_shape(MANUAL)[2]
\* Origin, rows and parking position on unbounded integers.
C20_Col == (C20_W - C20_w) \div 2
C20_Row == (C20_H - C20_h) \div 2
\* Where the terminal puts a 1-based coordinate (it takes 0 for 1).
C20_At(n) == IF n = 0 THEN 1 ELSE n

C20_LayoutStaysInside ==
  pc = "waiting" =>
    /\ C20_W - C20_w >= 0 /\ C20_H - C20_h >= 0
    /\ C20_Col + 5 < 65536 /\ C20_Row + 5 < 65536
    /\ Len(wrote) = 2 * C20_h + 1
    /\ \A k \in 0..(C20_h - 1) :
         /\ wrote[2 * k + 1] = Goto(C20_Col, C20_Row + k)
         /\ wrote[2 * k + 2].op = "Text"
         /\ Len(wrote[2 * k + 2].s) = MANUAL[k + 1]
         /\ C20_Row + k < 65536
         /\ C20_At(C20_Row + k) \in 1..C20_H
         /\ C20_At(C20_Col) + MANUAL[k + 1] - 1 <= C20_W
    /\ wrote[2 * C20_h + 1] = Goto(C20_Col + 5, C20_Row + 5)
    /\ C20_Col + 5 \in C20_At(C20_Col)..Min(C20_At(C20_Col) + C20_w - 1, C20_W)
    /\ C20_Row + 5 \in C20_At(C20_Row)..Min(C20_Row + C20_h - 1, C20_H)

\* The largest terminal a u16 describes: the origin is (32743, 32754).
C20_Witness ==
  /\ pc = "waiting"
  /\ term.size = <<65535, 65535>>
  /\ C20_w = 49 /\ C20_h = 27
  /\ wrote[Len(wrote)] = Goto(32748, 32759)

====
